---- MODULE Spec2Model ----
(***************************************************************************)
(* Dynamic-Triage-Bracelet: the two serial readers (ArduinoPPGReader in    *)
(* ReadPPGData.py, ArduinoSensorReader in ReadSensorData.py) and their     *)
(* heart-rate / HRV estimator, and the dashboard of app.py: its login, its  *)
(* session state and the LED commands it sends.                            *)
(*                                                                         *)
(* Conventions.  Sequences are 1-based here and 0-based in the source, so  *)
(* a buffer index i of the source is i+1 in the model.  Time is counted in *)
(* whole seconds: clock is the integer part of time.time().  PPG and       *)
(* temperature readings are integers.  Python's None is NoTime for a time  *)
(* and a record of kind "None" for a result.                               *)
(***************************************************************************)
EXTENDS Integers, Sequences, FiniteSets, TLC

VARIABLES
  variant,            \* "ppg": ArduinoPPGReader, "sensor": ArduinoSensorReader
  buffer_size,        \* self.buffer_size
  serial_connection,  \* "none" (None), "open", "closed"
  start_time,         \* self.start_time (NoTime for None)
  ppg_buffer,         \* self.ppg_buffer
  temp_buffer,        \* self.temp_buffer (stays empty in the PPG reader)
  time_buffer,        \* self.time_buffer
  clock,              \* time.time(), whole seconds
  pc,                 \* "idle", "reading" at the top of read_data's while loop, or the
                      \* statement of the loop body that comes next
  end_time,           \* read_data's local end_time (NoTime for None)
  file,               \* the CSV file save_data writes
  result,             \* what the last call returned
  raised,             \* an exception left the last call
  peaks,              \* the peak set the last estimator call worked on
  accepted,           \* history: the time of every sample appended since the last
                      \* clear_buffers call, in arrival order
  signal,             \* history: what the device put on the wire; signal.unit is the
                      \* number of counts that make 1 in the buffers (1 second, 1 degree)
  op                  \* history: "analyze_heart_rate", "calculate_hrv", "read_data_refused"
                      \* or "read_data_numeric" (read_data entered its loop with a number
                      \* for duration) when that was the last step, "other" after any other

VARIABLES
  session_state,      \* st.session_state of the dashboard's browser session
  page,               \* what the last run of main() showed and did, and history: the
                      \* last login attempt, and who selected the selected patient
  led                 \* the last call of set_color: its argument, the bytes written to
                      \* the serial port, whether a SerialException was caught and
                      \* whether an exception left the call

\* the state of a reader and the state of the dashboard
reader == <<variant, buffer_size, serial_connection, start_time, ppg_buffer,
            temp_buffer, time_buffer, clock, pc, end_time, file, result,
            raised, peaks, accepted, signal, op>>

app == <<session_state, page, led>>

vars == <<reader, app>>

buffers == <<ppg_buffer, temp_buffer, time_buffer>>

(***************************************************************************)
(* Bounds of the model and constants of the program                        *)
(***************************************************************************)
NoTime == -1

\* find_peaks(..., distance=20)
MinPeakDistance == 20

\* if len(self.ppg_buffer) < 10
MinSamples == 10

\* start_index = min(5, len(ppg_buffer))
SaveSkip == 5

\* time.sleep(2) in connect
ConnectSleep == 2

\* np.diff(peak_times) * 1000
MsPerSecond == 1000

\* heart_rate = 60 / np.mean(intervals)
SecondsPerMinute == 60

\* the largest buffer_size a reader is constructed with
MaxBufferSize == 2

\* the wall clock stops here
MaxClock == 5

\* the number of samples a run accepts
MaxSamples == 4

\* the temperature reading of sample k is TempBase + k
TempBase == 100

\* the longest duration read_data is called with
MaxDuration == 1

\* the length of the buffers the estimator is applied to
EstLen == 45

\* the most pulses in a synthetic pulse train
MaxPulses == 3

\* the largest sampling interval of a synthetic buffer, in seconds
MaxDt == 2

\* buffers of readings 0 and 1 are enumerated in full up to this length
ShortLen == 10

(***************************************************************************)
(* Arithmetic helpers                                                      *)
(***************************************************************************)
RECURSIVE SeqSum(_)
\* np.sum / the numerator of np.mean
SeqSum(s) == IF s = <<>> THEN 0 ELSE Head(s) + SeqSum(Tail(s))

\* np.diff
Diff(s) == [i \in 1..(Len(s) - 1) |-> s[i + 1] - s[i]]

RECURSIVE SortedSeq(_)
\* the elements of a set of integers in increasing order (numpy keeps peak indices sorted)
SortedSeq(S) ==
  IF S = {} THEN <<>>
  ELSE LET m == CHOOSE x \in S : \A y \in S : x <= y
       IN <<m>> \o SortedSeq(S \ {m})

Abs(x) == IF x < 0 THEN -x ELSE x

(***************************************************************************)
(* scipy.signal.find_peaks(x, height=np.mean(x), distance=20) as the       *)
(* estimator calls it                                                      *)
(***************************************************************************)
\* _local_maxima_1d's inner scan (i_ahead): the last sample of the run of equal
\* samples that starts at l
PlateauEnd(x, l) ==
  CHOOSE r \in l..Len(x) :
    /\ \A k \in l..r : x[k] = x[l]
    /\ r = Len(x) \/ x[r + 1] # x[l]

\* _local_maxima_1d: the midpoint of every plateau that is strictly higher than
\* the sample before it and the sample after it; the first and the last sample
\* are never peaks.
LocalMaxima(x) ==
  { (l + PlateauEnd(x, l)) \div 2 :
      l \in { i \in 2..(Len(x) - 1) :
                /\ x[i - 1] < x[i]
                /\ PlateauEnd(x, i) < Len(x)
                /\ x[PlateauEnd(x, i) + 1] < x[i] } }

\* height=np.mean(ppg_data): keep the peaks p with x[p] >= mean(x)
AboveMean(x, p) == x[p] * Len(x) >= SeqSum(x)

FarEnoughOneLess(p, q) == Abs(p - q) >= MinPeakDistance - 1

FarEnoughStrict(p, q) == Abs(p - q) > MinPeakDistance

\* the distance between two peaks is large enough for both to stay
FarEnough(p, q) == Abs(p - q) >= MinPeakDistance

RECURSIVE SelectByPeakDistance(_, _, _)
\* _select_by_peak_distance: the peaks are visited from the highest down; a peak
\* still kept removes every peak closer than the distance.  The order among
\* peaks of equal height is that of np.argsort, which is not specified, so
\* every order is a possible outcome: the result is a set of peak sets.
SelectByPeakDistance(x, cand, acc) ==
  IF cand = {} THEN {acc}
  ELSE UNION { SelectByPeakDistance(x, {q \in cand \ {p} : FarEnough(p, q)}, acc \cup {p}) :
                 p \in {c \in cand : \A q \in cand : x[q] <= x[c]} }

\* the peak sets find_peaks may return
FindPeaks(x) ==
  SelectByPeakDistance(x, {p \in LocalMaxima(x) : AboveMean(x, p)}, {})

(***************************************************************************)
(* What the history variables and the file hold                            *)
(***************************************************************************)
\* no CSV file has been written
NoFile == [written |-> FALSE, header |-> <<>>, rows |-> <<>>]

\* Python's None as a value
None == [kind |-> "None"]

\* a key that st.session_state does not hold
Absent == [kind |-> "absent"]

\* a Python str as a value
Str(t) == [kind |-> "str", val |-> t]

\* the session state of a new browser session: no key is set
NoSession ==
  [logged_in |-> Absent, username |-> Absent, user_info |-> Absent,
   patient_data |-> Absent, selected_patient_id |-> Absent,
   selected_color |-> Absent]

\* main() has not run yet
NoPage ==
  [view |-> "none", patient |-> None, set_color |-> FALSE, raised |-> FALSE,
   after_login |-> FALSE, attempt |-> None, selected_by |-> None,
   at_logout |-> None]

\* set_color has not been called yet
NoLed ==
  [color |-> "", written |-> <<>>, exception |-> "none", caught |-> FALSE,
   raised |-> FALSE, called |-> FALSE]

\* the dashboard before its first run
InitDashboard ==
  /\ session_state = NoSession
  /\ page = NoPage
  /\ led = NoLed

(***************************************************************************)
(* The estimator: analyze_heart_rate and calculate_hrv, the same code in   *)
(* both readers                                                            *)
(***************************************************************************)
\* if len(self.ppg_buffer) < 10
NotEnoughData(ppg) == Len(ppg) < MinSamples

TooFewPeaksOffByOne(pk) == Cardinality(pk) <= 2

\* if len(peaks) < 2
TooFewPeaks(pk) == Cardinality(pk) < 2

PeakTimesByIndex(time, pk) == SortedSeq(pk)

\* peak_times = time_data[peaks]
PeakTimes(time, pk) ==
  LET idx == SortedSeq(pk) IN [i \in 1..Len(idx) |-> time[idx[i]]]

\* time_data[peaks] raises IndexError when a peak index is outside time_data
IndexError(time, pk) == \E p \in pk : p > Len(time)

\* heart_rate = 60 / np.mean(intervals), kept as the fraction num/den:
\* np.mean(intervals) = sum/len.  numpy divides by zero without raising.
HeartRate(time, pk) ==
  LET intervals == Diff(PeakTimes(time, pk))
  IN  [kind |-> "bpm",
       num  |-> SecondsPerMinute * Len(intervals),
       den  |-> SeqSum(intervals)]

\* np.std(v) squared, as the fraction (n*sum(v^2) - sum(v)^2) / n^2
StdSquared(v) ==
  [num |-> Len(v) * SeqSum([i \in 1..Len(v) |-> v[i] * v[i]]) - SeqSum(v) * SeqSum(v),
   den |-> Len(v) * Len(v)]

\* np.mean(np.diff(v) ** 2), as the fraction sum(d^2)/len(d); np.mean of an empty
\* array is 0/0 = nan, with a warning and no exception
MeanSquaredDiff(v) ==
  LET d == Diff(v)
  IN  [num |-> SeqSum([i \in 1..Len(d) |-> d[i] * d[i]]), den |-> Len(d)]

\* a fraction that numpy evaluates to nan
IsNaN(q) == q.num = 0 /\ q.den = 0

\* a fraction that is the number 0
IsZero(q) == q.num = 0 /\ q.den # 0

\* the dict calculate_hrv returns.  rr_intervals = np.diff(peak_times) * 1000;
\* sdnn = np.std(rr_intervals); rmssd = np.sqrt(np.mean(np.diff(rr_intervals) ** 2)).
\* Both are homogeneous in the factor 1000, which is kept apart as scale, and the
\* square root keeps 0 and nan, so each is held as the fraction `sq` with
\* SDNN = scale * sqrt(SDNN.sq) and RMSSD = scale * sqrt(RMSSD.sq): the squares
\* of millisecond intervals do not fit the model checker's integers.
Hrv(time, pk) ==
  LET intervals == Diff(PeakTimes(time, pk))
  IN  [kind  |-> "hrv",
       scale |-> MsPerSecond,
       SDNN  |-> StdSquared(intervals),
       RMSSD |-> MeanSquaredDiff(intervals)]

\* what one call of analyze_heart_rate may do: [result, raised, peaks]
AnalyzeHeartRateOutcomes(ppg, time) ==
  IF NotEnoughData(ppg)
  THEN {[result |-> None, raised |-> FALSE, peaks |-> {}]}
  ELSE { IF TooFewPeaks(pk) THEN [result |-> None, raised |-> FALSE, peaks |-> pk]
         ELSE IF IndexError(time, pk) THEN [result |-> None, raised |-> TRUE, peaks |-> pk]
         ELSE [result |-> HeartRate(time, pk), raised |-> FALSE, peaks |-> pk]
         : pk \in FindPeaks(ppg) }

\* what one call of calculate_hrv may do
CalculateHrvOutcomes(ppg, time) ==
  IF NotEnoughData(ppg)
  THEN {[result |-> None, raised |-> FALSE, peaks |-> {}]}
  ELSE { IF TooFewPeaks(pk) THEN [result |-> None, raised |-> FALSE, peaks |-> pk]
         ELSE IF IndexError(time, pk) THEN [result |-> None, raised |-> TRUE, peaks |-> pk]
         ELSE [result |-> Hrv(time, pk), raised |-> FALSE, peaks |-> pk]
         : pk \in FindPeaks(ppg) }

\* a call of analyze_heart_rate between two other calls
AnalyzeHeartRate ==
  /\ pc = "idle"
  /\ \E o \in AnalyzeHeartRateOutcomes(ppg_buffer, time_buffer) :
       /\ result' = o.result
       /\ raised' = o.raised
       /\ peaks' = o.peaks
  /\ op' = "analyze_heart_rate"
  /\ UNCHANGED <<app, variant, buffer_size, serial_connection, start_time, ppg_buffer,
                 temp_buffer, time_buffer, clock, pc, end_time, file, accepted,
                 signal>>

\* a call of calculate_hrv between two other calls
CalculateHrv ==
  /\ pc = "idle"
  /\ \E o \in CalculateHrvOutcomes(ppg_buffer, time_buffer) :
       /\ result' = o.result
       /\ raised' = o.raised
       /\ peaks' = o.peaks
  /\ op' = "calculate_hrv"
  /\ UNCHANGED <<app, variant, buffer_size, serial_connection, start_time, ppg_buffer,
                 temp_buffer, time_buffer, clock, pc, end_time, file, accepted,
                 signal>>

(***************************************************************************)
(* The buffers the estimator is checked on                                 *)
(***************************************************************************)
\* sin(2*pi*k/120) * 1000, rounded, for the first quarter of the wave
QuarterSine ==
  <<0, 52, 105, 156, 208, 259, 309, 358, 407, 454, 500, 545, 588, 629, 669, 707,
    743, 777, 809, 839, 866, 891, 914, 934, 951, 966, 978, 988, 995, 999, 1000>>

\* the number of table steps in one period of the sine: 120
SineSteps == 4 * (Len(QuarterSine) - 1)

\* sin(2*pi*k/SineSteps) * 1000 for any k >= 0
Sine(k) ==
  LET a == k % SineSteps
      q == SineSteps \div 4
  IN  IF a <= q THEN QuarterSine[a + 1]
      ELSE IF a <= 2 * q THEN QuarterSine[2 * q - a + 1]
      ELSE IF a <= 3 * q THEN -QuarterSine[a - 2 * q + 1]
      ELSE -QuarterSine[4 * q - a + 1]

\* n samples of a sine that advances m table steps per sample from phase ph:
\* its period is SineSteps/m samples, more than 2 samples when 2*m < SineSteps
SineBuffer(n, m, ph) == [i \in 1..n |-> Sine(ph + (i - 1) * m)]

\* the phases, in table steps, at which the first sample of a sine is taken
SinePhases == {0, 10, 30, 50, 70, 90}

SineRates == {m \in 1..(SineSteps - 1) : 2 * m < SineSteps}

\* the gaps between successive pulses of a pulse train
PulseGaps == {1, MinPeakDistance - 1, MinPeakDistance, MinPeakDistance + 1}

PulseHeights == {1, 40}

RECURSIVE PulseLists(_)
\* the pulse trains of 1..k pulses, as sequences of [pos, ht]: the first pulse at
\* sample 2, the gaps from PulseGaps, all inside the buffer
PulseLists(k) ==
  IF k <= 1 THEN {<<[pos |-> 2, ht |-> h]>> : h \in PulseHeights}
  ELSE LET shorter == PulseLists(k - 1)
           longer  == { s \o <<[pos |-> s[Len(s)].pos + g, ht |-> h]>> :
                          s \in {t \in shorter : Len(t) = k - 1},
                          g \in PulseGaps,
                          h \in PulseHeights }
       IN  shorter \cup {s \in longer : s[Len(s)].pos <= EstLen}

\* the pulse trains, the empty one among them
PulseTrains == {<<>>} \cup PulseLists(MaxPulses)

\* the buffer of a pulse train: zero but for its pulses
PulseBuffer(n, s) ==
  [i \in 1..n |-> IF \E j \in 1..Len(s) : s[j].pos = i
                  THEN (CHOOSE p \in {s[j] : j \in 1..Len(s)} : p.pos = i).ht
                  ELSE 0]

\* sampling times: one sample every dt seconds, and late seconds more from sample stall on
SampleTimes(n, dt, late, stall) ==
  [i \in 1..n |-> (i - 1) * dt + (IF i >= stall THEN late ELSE 0)]

\* the sample from which a stalled device is late
StallAt == MinPeakDistance + 5

\* the inputs of the estimator: pulse trains sampled evenly or with one stall,
\* evenly sampled sines, and every short buffer of readings 0 and 1
EstimatorInputs ==
  { [ppg    |-> PulseBuffer(EstLen, s),
     time   |-> SampleTimes(EstLen, dt, late, StallAt),
     signal |-> [shape |-> "pulses", rate |-> 0, dt |-> dt, late |-> late, unit |-> 1]] :
       s \in PulseTrains, dt \in 1..MaxDt, late \in 0..1 }
    \cup
  { [ppg    |-> SineBuffer(EstLen, m, ph),
     time   |-> SampleTimes(EstLen, dt, 0, StallAt),
     signal |-> [shape |-> "sine", rate |-> m, dt |-> dt, late |-> 0, unit |-> 1]] :
       m \in SineRates, ph \in SinePhases, dt \in 1..MaxDt }
    \cup
  { [ppg    |-> b,
     time   |-> SampleTimes(Len(b), 1, 0, StallAt),
     signal |-> [shape |-> "bits", rate |-> 0, dt |-> 1, late |-> 0, unit |-> 1]] :
       b \in UNION {[1..n -> 0..1] : n \in (MinSamples - 1)..ShortLen} }

\* the wire of a reader that is reading a device: whole readings, whole seconds
Wire == [shape |-> "wire", rate |-> 0, dt |-> 0, late |-> 0, unit |-> 1]

\* a reader of either class after a session that left one of EstimatorInputs in
\* its buffers
InitEstimator ==
  /\ variant \in {"ppg", "sensor"}
  /\ buffer_size = EstLen
  /\ serial_connection = "closed"
  /\ start_time = 0
  /\ \E in \in EstimatorInputs :
       /\ ppg_buffer = in.ppg
       /\ time_buffer = in.time
       /\ signal = in.signal
  /\ temp_buffer = IF variant = "sensor" THEN [i \in 1..Len(ppg_buffer) |-> 37] ELSE <<>>
  /\ clock = time_buffer[Len(time_buffer)]
  /\ pc = "idle"
  /\ end_time = NoTime
  /\ file = NoFile
  /\ result = None
  /\ raised = FALSE
  /\ peaks = {}
  /\ accepted = <<>>
  /\ op = "other"
  /\ InitDashboard

NextEstimator == AnalyzeHeartRate \/ CalculateHrv

SpecEstimator == InitEstimator /\ [][NextEstimator]_vars

(***************************************************************************)
(* The serial line format                                                  *)
(***************************************************************************)
\* a field that float() converts, and one on which it raises ValueError
Numeric(v) == [num |-> TRUE, val |-> v]

NotNumeric == [num |-> FALSE, val |-> 0]

\* bytes that are not UTF-8: .decode('utf-8') raises UnicodeDecodeError
Undecodable == [decodable |-> FALSE, fields |-> <<>>]

\* a line of text with these comma-separated fields
Text(f) == [decodable |-> TRUE, fields |-> f]

\* The device numbers its readings, so that a buffer shows which samples it
\* holds: the PPG reading of the k-th sample since the last clear_buffers call
\* is k, and its temperature reading is TempBase + k.
NextPPG == Numeric(Len(accepted) + 1)

NextTemp == Numeric(TempBase + Len(accepted) + 1)

\* what readline() may return: text of one, two or three fields, any of the
\* first two numeric or not, or undecodable bytes
Lines ==
  { Text(<<NextPPG>>), Text(<<NotNumeric>>),
    Text(<<NextPPG, NextTemp>>), Text(<<NextPPG, NotNumeric>>),
    Text(<<NotNumeric, NextTemp>>), Text(<<NotNumeric, NotNumeric>>),
    Text(<<NextPPG, NextTemp, NextTemp>>),
    Undecodable }

\* ArduinoPPGReader: float(line) converts the whole line, so a comma makes it fail
ParsesPPG(line) == Len(line.fields) = 1 /\ line.fields[1].num

\* ArduinoSensorReader: values = line.split(','); if len(values) == 2
TwoFields(line) == Len(line.fields) = 2

\* float(values[0]) and float(values[1]) both convert
ParsesSensor(line) == line.fields[1].num /\ line.fields[2].num

\* the line becomes a sample
Accepts(v, line) ==
  /\ line.decodable
  /\ IF v = "ppg" THEN ParsesPPG(line) ELSE TwoFields(line) /\ ParsesSensor(line)

\* the sample of an accepted line read at time now: current_time = time.time() - self.start_time
SampleOf(v, line, now, start) ==
  [time |-> now - start,
   ppg  |-> line.fields[1].val,
   temp |-> IF v = "ppg" THEN 0 ELSE line.fields[2].val]

(***************************************************************************)
(* The buffers: collections.deque(maxlen=buffer_size)                      *)
(***************************************************************************)
DequeAppendNoDrop(buf, x, maxlen) == Append(buf, x)

DequeAppendDropNewest(buf, x, maxlen) ==
  IF Len(buf) = maxlen THEN buf ELSE Append(buf, x)

\* deque.append: a full deque drops its oldest item
DequeAppend(buf, x, maxlen) ==
  IF maxlen = 0 THEN <<>>
  ELSE IF Len(buf) = maxlen THEN Append(Tail(buf), x)
  ELSE Append(buf, x)

\* the three buffers after the appends of an accepted sample
Appended(v, ppg, temp, time, x, maxlen) ==
  [ppg  |-> DequeAppend(ppg, x.ppg, maxlen),
   temp |-> IF v = "ppg" THEN temp ELSE DequeAppend(temp, x.temp, maxlen),
   time |-> DequeAppend(time, x.time, maxlen)]

BufferFullNever(v, b, maxlen) == FALSE

\* ArduinoSensorReader only: if len(self.ppg_buffer) == self.buffer_size
BufferFull(v, b, maxlen) == v = "sensor" /\ Len(b.ppg) = maxlen

\* clear_buffers
Cleared == [ppg |-> <<>>, temp |-> <<>>, time |-> <<>>]

(***************************************************************************)
(* save_data                                                               *)
(***************************************************************************)
\* zip(...): as many rows as the shortest of the sequences has items
ZipLen(v, ppg, temp, time) ==
  LET m == IF Len(time) < Len(ppg) THEN Len(time) ELSE Len(ppg)
  IN  IF v = "ppg" THEN m ELSE IF Len(temp) < m THEN Len(temp) ELSE m

StartIndexTen(v, ppg) ==
  IF v = "ppg" THEN 0 ELSE IF 2 * SaveSkip < Len(ppg) THEN 2 * SaveSkip ELSE Len(ppg)

\* start_index: ArduinoSensorReader drops min(5, len(ppg_buffer)) leading entries,
\* ArduinoPPGReader none
StartIndex(v, ppg) ==
  IF v = "ppg" THEN 0 ELSE IF SaveSkip < Len(ppg) THEN SaveSkip ELSE Len(ppg)

\* the rows of values written after the header
Rows(v, ppg, temp, time) ==
  LET k == StartIndex(v, ppg)
      n == ZipLen(v, ppg, temp, time)
  IN  [i \in 1..(IF n > k THEN n - k ELSE 0) |->
         [time |-> time[k + i],
          ppg  |-> ppg[k + i],
          temp |-> IF v = "ppg" THEN 0 ELSE temp[k + i]]]

\* f.write("Time,PPG\n") and f.write("Time,PPG,Temperature\n")
Header(v) == IF v = "ppg" THEN <<"Time", "PPG">> ELSE <<"Time", "PPG", "Temperature">>

\* {time_val:.3f}
TimeDigits == 3

\* {temp_val:.2f}
TempDigits == 2

\* A decimal text with n digits after the point is held as the number of 10^-n
\* it shows: [digits |-> n, count |-> m] is the text of m / 10^n.
FixedDown(x, n, unit) == {[digits |-> n, count |-> (x * 10^n) \div unit]}

\* f"{value:.nf}" of the float x / unit: the nearest text of n digits.  Python
\* rounds the exact value of the binary float, which lies on one side or the
\* other of a decimal half such as 0.0005, so a half may go either way.
Fixed(x, n, unit) ==
  LET q == (x * 10^n) \div unit
      r == (x * 10^n) % unit
  IN  IF 2 * r < unit THEN {[digits |-> n, count |-> q]}
      ELSE IF 2 * r > unit THEN {[digits |-> n, count |-> q + 1]}
      ELSE {[digits |-> n, count |-> q], [digits |-> n, count |-> q + 1]}

\* f"{ppg_val}": str() of a float is the shortest text that float() reads back as
\* the same float
Shortest(x) == [exact |-> x]

\* the texts one row may be written as: time to 3 digits, PPG in full, and in
\* ArduinoSensorReader temperature to 2 digits
RowTexts(v, row, unit) ==
  IF v = "ppg"
  THEN { <<t, Shortest(row.ppg)>> : t \in Fixed(row.time, TimeDigits, unit) }
  ELSE { <<t, Shortest(row.ppg), c>> :
           t \in Fixed(row.time, TimeDigits, unit),
           c \in Fixed(row.temp, TempDigits, unit) }

RECURSIVE RowsWritten(_, _, _)
\* the for loop of f.write calls: the texts the rows may be written as
RowsWritten(v, rows, unit) ==
  IF rows = <<>> THEN {<<>>}
  ELSE { <<h>> \o t : h \in RowTexts(v, Head(rows), unit),
                      t \in RowsWritten(v, Tail(rows), unit) }

\* the files save_data may leave: nothing is written when the PPG buffer is
\* empty, and open(filename, 'w') replaces what the file held
Saved(v, ppg, temp, time, old, unit) ==
  IF ppg = <<>> THEN {old}
  ELSE { [written |-> TRUE, header |-> Header(v), rows |-> r] :
           r \in RowsWritten(v, Rows(v, ppg, temp, time), unit) }

(***************************************************************************)
(* The reader: construction and the public calls                           *)
(***************************************************************************)
\* __init__
Init ==
  /\ variant \in {"ppg", "sensor"}
  /\ buffer_size \in 1..MaxBufferSize
  /\ serial_connection = "none"
  /\ start_time = NoTime
  /\ ppg_buffer = <<>>
  /\ temp_buffer = <<>>
  /\ time_buffer = <<>>
  /\ clock = 0
  /\ pc = "idle"
  /\ end_time = NoTime
  /\ file = NoFile
  /\ result = None
  /\ raised = FALSE
  /\ peaks = {}
  /\ accepted = <<>>
  /\ signal = Wire
  /\ op = "other"
  /\ InitDashboard

\* a Python bool as a returned value
Bool(b) == [kind |-> "bool", val |-> b]

\* connect, serial.Serial succeeding: the port is open, and start_time is taken
\* after the two seconds' sleep
Connect ==
  /\ pc = "idle"
  /\ clock + ConnectSleep <= MaxClock
  /\ serial_connection' = "open"
  /\ clock' = clock + ConnectSleep
  /\ start_time' = clock'
  /\ result' = Bool(TRUE)
  /\ raised' = FALSE
  /\ op' = "other"
  /\ UNCHANGED <<app, variant, buffer_size, ppg_buffer, temp_buffer, time_buffer, pc,
                 end_time, file, peaks, accepted, signal>>

\* connect, serial.Serial raising SerialException: reported, False returned;
\* self.serial_connection and self.start_time keep what they held
ConnectFails ==
  /\ pc = "idle"
  /\ result' = Bool(FALSE)
  /\ raised' = FALSE
  /\ op' = "other"
  /\ UNCHANGED <<app, variant, buffer_size, serial_connection, start_time, ppg_buffer,
                 temp_buffer, time_buffer, clock, pc, end_time, file, peaks,
                 accepted, signal>>

\* disconnect
Disconnect ==
  /\ pc = "idle"
  /\ serial_connection' = IF serial_connection = "open" THEN "closed" ELSE serial_connection
  /\ result' = None
  /\ raised' = FALSE
  /\ op' = "other"
  /\ UNCHANGED <<app, variant, buffer_size, start_time, ppg_buffer, temp_buffer,
                 time_buffer, clock, pc, end_time, file, peaks, accepted, signal>>

NotConnectedIgnoresClosed(conn) == conn = "none"

\* if not self.serial_connection or not self.serial_connection.is_open
NotConnected(conn) == conn # "open"

\* `if duration:` is false for None (NoTime here) and for 0 alike
Truthy(duration) == duration # NoTime /\ duration # 0

\* read_data(duration) up to its while loop, duration being None or a number of
\* seconds.  A duration is taken only if the clock of the model can pass its end.
ReadData ==
  /\ pc = "idle"
  /\ \E duration \in {NoTime} \cup 0..MaxDuration :
       IF NotConnected(serial_connection)
       THEN /\ pc' = "idle"
            /\ end_time' = end_time
            /\ op' = "read_data_refused"
       ELSE /\ clock + duration < MaxClock
            /\ pc' = "reading"
            /\ end_time' = IF Truthy(duration) THEN clock + duration ELSE NoTime
            /\ op' = IF duration = NoTime THEN "other" ELSE "read_data_numeric"
  /\ result' = None
  /\ raised' = FALSE
  /\ UNCHANGED <<app, variant, buffer_size, serial_connection, start_time, ppg_buffer,
                 temp_buffer, time_buffer, clock, file, peaks, accepted, signal>>

\* save_data(filename)
SaveData ==
  /\ pc = "idle"
  /\ file' \in Saved(variant, ppg_buffer, temp_buffer, time_buffer, file, signal.unit)
  /\ result' = None
  /\ raised' = FALSE
  /\ op' = "other"
  /\ UNCHANGED <<app, variant, buffer_size, serial_connection, start_time, ppg_buffer,
                 temp_buffer, time_buffer, clock, pc, end_time, peaks, accepted,
                 signal>>

\* clear_buffers, a method of ArduinoSensorReader
ClearBuffers ==
  /\ pc = "idle"
  /\ variant = "sensor"
  /\ ppg_buffer' = Cleared.ppg
  /\ temp_buffer' = Cleared.temp
  /\ time_buffer' = Cleared.time
  /\ accepted' = <<>>
  /\ result' = None
  /\ raised' = FALSE
  /\ op' = "other"
  /\ UNCHANGED <<app, variant, buffer_size, serial_connection, start_time, clock, pc,
                 end_time, file, peaks, signal>>

\* time passes between two calls
Tick ==
  /\ pc = "idle"
  /\ clock < MaxClock
  /\ clock' = clock + 1
  /\ op' = "other"
  /\ UNCHANGED <<app, variant, buffer_size, serial_connection, start_time, ppg_buffer,
                 temp_buffer, time_buffer, pc, end_time, file, result, raised,
                 peaks, accepted, signal>>

(***************************************************************************)
(* read_data's while loop, one action per pass                             *)
(***************************************************************************)
\* if end_time and time.time() > end_time
TimeUp == end_time # NoTime /\ clock > end_time

\* time.sleep(0.01) at the end of a pass: the clock's second may turn
Slept == {t \in {clock, clock + 1} : t <= MaxClock}

\* the pass that finds the time up: break
ReadLoopBreak ==
  /\ pc = "reading"
  /\ TimeUp
  /\ pc' = "idle"
  /\ op' = "other"
  /\ UNCHANGED <<app, variant, buffer_size, serial_connection, start_time, ppg_buffer,
                 temp_buffer, time_buffer, clock, end_time, file, result, raised,
                 peaks, accepted, signal>>

\* a pass with in_waiting = 0: only the sleep
ReadLoopNoData ==
  /\ pc = "reading"
  /\ ~TimeUp
  /\ clock < MaxClock
  /\ clock' = clock + 1
  /\ op' = "other"
  /\ UNCHANGED <<app, variant, buffer_size, serial_connection, start_time, ppg_buffer,
                 temp_buffer, time_buffer, pc, end_time, file, result, raised,
                 peaks, accepted, signal>>

\* a pass that takes a line that becomes a sample: the appends, in
\* ArduinoSensorReader the flush of full buffers (print_buffer, plot_buffer,
\* save_data('sensor_data.csv'), clear_buffers), then the sleep
ReadLoopSample(line) ==
  /\ Accepts(variant, line)
  /\ Len(accepted) < MaxSamples
  /\ LET x == SampleOf(variant, line, clock, start_time)
         b == Appended(variant, ppg_buffer, temp_buffer, time_buffer, x, buffer_size)
         full == BufferFull(variant, b, buffer_size)
         after == IF full THEN Cleared ELSE b
     IN  /\ ppg_buffer' = after.ppg
         /\ temp_buffer' = after.temp
         /\ time_buffer' = after.time
         /\ file' \in IF full THEN Saved(variant, b.ppg, b.temp, b.time, file, signal.unit)
                               ELSE {file}
         /\ accepted' = Append(accepted, x.time)
  /\ clock' \in Slept
  /\ pc' = "reading"

\* a pass that takes a line float() refuses or with the wrong number of fields:
\* the inner handlers report it, then the sleep
ReadLoopRejected(line) ==
  /\ line.decodable
  /\ ~Accepts(variant, line)
  /\ clock' \in Slept
  /\ pc' = "reading"
  /\ UNCHANGED <<ppg_buffer, temp_buffer, time_buffer, file, accepted>>

\* a pass that takes bytes .decode('utf-8') refuses: the decode stands outside the
\* inner try, so UnicodeDecodeError reaches `except Exception` around the loop,
\* which reports it and ends read_data
ReadLoopUndecodable(line) ==
  /\ ~line.decodable
  /\ pc' = "idle"
  /\ UNCHANGED <<ppg_buffer, temp_buffer, time_buffer, file, accepted, clock>>

\* the rest of a pass once readline() has returned `line`
ReadLoopTaken(line) ==
  /\ \/ ReadLoopSample(line)
     \/ ReadLoopRejected(line)
     \/ ReadLoopUndecodable(line)
  /\ op' = "other"
  /\ UNCHANGED <<app, variant, buffer_size, serial_connection, start_time, end_time,
                 result, raised, peaks, signal>>

\* a pass with in_waiting > 0 whose readline() returns `line`
ReadLoopTakes(line) ==
  /\ pc = "reading"
  /\ ~TimeUp
  /\ ReadLoopTaken(line)

\* a pass with in_waiting > 0
ReadLoopLine == \E line \in Lines : ReadLoopTakes(line)

\* Ctrl+C between two passes or while readline() waits: except KeyboardInterrupt
KeyboardInterrupt ==
  /\ pc \in {"reading", "readline"}
  /\ pc' = "idle"
  /\ op' = "other"
  /\ UNCHANGED <<app, variant, buffer_size, serial_connection, start_time, ppg_buffer,
                 temp_buffer, time_buffer, clock, end_time, file, result, raised,
                 peaks, accepted, signal>>

\* a pass with in_waiting > 0 while the newline of the line has not arrived:
\* serial.Serial(port, baud_rate) sets no timeout, so readline() waits for it
ReadLineBlocks ==
  /\ pc = "reading"
  /\ ~TimeUp
  /\ pc' = "readline"
  /\ op' = "other"
  /\ UNCHANGED <<app, variant, buffer_size, serial_connection, start_time, ppg_buffer,
                 temp_buffer, time_buffer, clock, end_time, file, result, raised,
                 peaks, accepted, signal>>

\* time passes while readline() waits
ReadLineWaits ==
  /\ pc = "readline"
  /\ clock < MaxClock
  /\ clock' = clock + 1
  /\ op' = "other"
  /\ UNCHANGED <<app, variant, buffer_size, serial_connection, start_time, ppg_buffer,
                 temp_buffer, time_buffer, pc, end_time, file, result, raised,
                 peaks, accepted, signal>>

\* the newline arrives and readline() returns the line
ReadLineReturns ==
  /\ pc = "readline"
  /\ \E line \in Lines : ReadLoopTaken(line)

Next ==
  \/ Connect
  \/ ConnectFails
  \/ Disconnect
  \/ ReadData
  \/ ReadLoopBreak
  \/ ReadLoopNoData
  \/ ReadLoopLine
  \/ KeyboardInterrupt
  \/ SaveData
  \/ ClearBuffers
  \/ AnalyzeHeartRate
  \/ CalculateHrv
  \/ Tick

Spec == Init /\ [][Next]_vars

(***************************************************************************)
(* read_data with its waits, for the claims about its ending               *)
(***************************************************************************)
NextDuration ==
  \/ Connect
  \/ ReadData
  \/ ReadLoopBreak
  \/ ReadLoopNoData
  \/ ReadLoopLine
  \/ ReadLineBlocks
  \/ ReadLineWaits
  \/ ReadLineReturns
  \/ KeyboardInterrupt

\* a pass of the loop during which the second of the clock turns: every pass
\* sleeps 0.01 s, so the second turns after at most a hundred passes
LoopSecondTurns == (ReadLoopNoData \/ ReadLoopLine) /\ clock' = clock + 1

\* The interpreter keeps running the loop: time passes over its passes, and the
\* pass that finds the time up breaks.  Nothing is assumed of the device or of
\* the user.
SpecDuration ==
  /\ Init
  /\ [][NextDuration]_vars
  /\ WF_vars(LoopSecondTurns)
  /\ WF_vars(ReadLoopBreak)

(***************************************************************************)
(* read_data statement by statement, for Ctrl+C inside a pass: the pass of *)
(* ReadLoopSample is the run of these steps from AppendPPG to the sleep    *)
(***************************************************************************)
\* the positions inside a pass: the statement that comes next
InPass == {"append_temp", "append_time", "flush", "clear_ppg", "clear_temp", "clear_time"}

\* readline() returned a line that parsed, current_time was taken, and
\* self.ppg_buffer.append(ppg_value) is done
AppendPPG ==
  /\ pc = "reading"
  /\ ~TimeUp
  /\ Len(accepted) < MaxSamples
  /\ \E line \in Lines :
       /\ Accepts(variant, line)
       /\ LET x == SampleOf(variant, line, clock, start_time)
          IN  /\ ppg_buffer' = DequeAppend(ppg_buffer, x.ppg, buffer_size)
              /\ accepted' = Append(accepted, x.time)
  /\ pc' = IF variant = "sensor" THEN "append_temp" ELSE "append_time"
  /\ op' = "other"
  /\ UNCHANGED <<app, variant, buffer_size, serial_connection, start_time, temp_buffer,
                 time_buffer, clock, end_time, file, result, raised, peaks, signal>>

\* self.temp_buffer.append(temp_value), the temperature of the line just taken
AppendTemp ==
  /\ pc = "append_temp"
  /\ temp_buffer' = DequeAppend(temp_buffer, TempBase + Len(accepted), buffer_size)
  /\ pc' = "append_time"
  /\ op' = "other"
  /\ UNCHANGED <<app, variant, buffer_size, serial_connection, start_time, ppg_buffer,
                 time_buffer, clock, end_time, file, result, raised, peaks, accepted,
                 signal>>

\* self.time_buffer.append(current_time); then in ArduinoSensorReader the test
\* for the full buffer, and without a flush the sleep that ends the pass
AppendTime ==
  /\ pc = "append_time"
  /\ time_buffer' = DequeAppend(time_buffer, accepted[Len(accepted)], buffer_size)
  /\ IF BufferFull(variant, [ppg |-> ppg_buffer], buffer_size)
     THEN pc' = "flush" /\ clock' = clock
     ELSE pc' = "reading" /\ clock' \in Slept
  /\ op' = "other"
  /\ UNCHANGED <<app, variant, buffer_size, serial_connection, start_time, ppg_buffer,
                 temp_buffer, end_time, file, result, raised, peaks, accepted, signal>>

\* print_buffer(), plot_buffer() and save_data('sensor_data.csv')
FlushSave ==
  /\ pc = "flush"
  /\ file' \in Saved(variant, ppg_buffer, temp_buffer, time_buffer, file, signal.unit)
  /\ pc' = "clear_ppg"
  /\ op' = "other"
  /\ UNCHANGED <<app, variant, buffer_size, serial_connection, start_time, ppg_buffer,
                 temp_buffer, time_buffer, clock, end_time, result, raised, peaks,
                 accepted, signal>>

\* clear_buffers: self.ppg_buffer.clear()
ClearPPG ==
  /\ pc = "clear_ppg"
  /\ ppg_buffer' = Cleared.ppg
  /\ pc' = "clear_temp"
  /\ op' = "other"
  /\ UNCHANGED <<app, variant, buffer_size, serial_connection, start_time, temp_buffer,
                 time_buffer, clock, end_time, file, result, raised, peaks, accepted,
                 signal>>

\* clear_buffers: self.temp_buffer.clear()
ClearTemp ==
  /\ pc = "clear_temp"
  /\ temp_buffer' = Cleared.temp
  /\ pc' = "clear_time"
  /\ op' = "other"
  /\ UNCHANGED <<app, variant, buffer_size, serial_connection, start_time, ppg_buffer,
                 time_buffer, clock, end_time, file, result, raised, peaks, accepted,
                 signal>>

\* clear_buffers: self.time_buffer.clear(), then the sleep that ends the pass
ClearTime ==
  /\ pc = "clear_time"
  /\ time_buffer' = Cleared.time
  /\ pc' = "reading"
  /\ clock' \in Slept
  /\ op' = "other"
  /\ UNCHANGED <<app, variant, buffer_size, serial_connection, start_time, ppg_buffer,
                 temp_buffer, end_time, file, result, raised, peaks, accepted, signal>>

\* a pass that takes a line that does not become a sample
ReadLoopSkips ==
  \E line \in Lines : ~Accepts(variant, line) /\ ReadLoopTakes(line)

\* Ctrl+C between two statements of a pass: KeyboardInterrupt is raised where
\* the interpreter stands, and `except KeyboardInterrupt` ends read_data
KeyboardInterruptInPass ==
  /\ pc \in InPass
  /\ pc' = "idle"
  /\ op' = "other"
  /\ UNCHANGED <<app, variant, buffer_size, serial_connection, start_time, ppg_buffer,
                 temp_buffer, time_buffer, clock, end_time, file, result, raised,
                 peaks, accepted, signal>>

NextInterrupt ==
  \/ Connect
  \/ ReadData
  \/ ReadLoopBreak
  \/ ReadLoopNoData
  \/ ReadLoopSkips
  \/ AppendPPG
  \/ AppendTemp
  \/ AppendTime
  \/ FlushSave
  \/ ClearPPG
  \/ ClearTemp
  \/ ClearTime
  \/ KeyboardInterrupt
  \/ KeyboardInterruptInPass

SpecInterrupt == Init /\ [][NextInterrupt]_vars

(***************************************************************************)
(* app.py: the LED commands                                                *)
(***************************************************************************)
\* command.encode(): the UTF-8 bytes of the one-character commands
Encode(command) ==
  IF command = "0" THEN <<48>>
  ELSE IF command = "1" THEN <<49>>
  ELSE IF command = "2" THEN <<50>>
  ELSE <<>>

\* how a call of send_command may go: the command is written and a response, or
\* none within the timeout, is read; serial.Serial(...), ser.write or
\* ser.readline raises SerialException; the response is bytes that .decode()
\* refuses
SendOutcomes == {"sent", "open_fails", "write_fails", "read_fails", "undecodable"}

\* the exception raised inside the `try` of send_command
Raised(outcome) ==
  IF outcome \in {"open_fails", "write_fails", "read_fails"} THEN "SerialException"
  ELSE IF outcome = "undecodable" THEN "UnicodeDecodeError"
  ELSE "none"

\* send_command(command): the bytes written; `except serial.SerialException`
\* catches a failure of the port, while the UnicodeDecodeError of an undecodable
\* response leaves the call
SendCommand(command, outcome) ==
  [written   |-> IF outcome \in {"open_fails", "write_fails"} THEN <<>>
                 ELSE Encode(command),
   exception |-> Raised(outcome),
   caught    |-> Raised(outcome) = "SerialException",
   raised    |-> Raised(outcome) \notin {"none", "SerialException"}]

SetColorCommandsFromOne(color) ==
  (IF color = "yellow" THEN <<"1">> ELSE <<>>)
    \o (IF color = "green" THEN <<"2">> ELSE <<>>)
    \o (IF color = "orange" THEN <<"3">> ELSE <<>>)

\* set_color(color): the commands its three `if`s pass to send_command, in order
SetColorCommands(color) ==
  (IF color = "yellow" THEN <<"0">> ELSE <<>>)
    \o (IF color = "green" THEN <<"1">> ELSE <<>>)
    \o (IF color = "orange" THEN <<"2">> ELSE <<>>)

RECURSIVE SendAll(_, _)
\* the calls of send_command one after the other, up to one that raises
SendAll(commands, outcome) ==
  IF commands = <<>>
  THEN [written |-> <<>>, exception |-> "none", caught |-> FALSE, raised |-> FALSE]
  ELSE LET first == SendCommand(Head(commands), outcome)
           rest  == SendAll(Tail(commands), outcome)
       IN  IF first.raised THEN first
           ELSE [written   |-> first.written \o rest.written,
                 exception |-> IF first.caught THEN first.exception ELSE rest.exception,
                 caught    |-> first.caught \/ rest.caught,
                 raised    |-> rest.raised]

\* what a call of set_color(color) leaves
SetColorResult(color, outcome) ==
  LET sent == SendAll(SetColorCommands(color), outcome)
  IN  [color |-> color, written |-> sent.written, exception |-> sent.exception,
       caught |-> sent.caught, raised |-> sent.raised, called |-> TRUE]

\* the colours set_color is called with: those of the dashboard's selectbox and others
Colors == {"yellow", "green", "orange", "red", "Yellow"}

\* color_options
ColorOptions == {"yellow", "green", "orange"}

\* set_color(color) called by a program that imports app.py
SetColor ==
  /\ \E color \in Colors, outcome \in SendOutcomes :
       led' = SetColorResult(color, outcome)
  /\ UNCHANGED <<reader, session_state, page>>

(***************************************************************************)
(* app.py: login and session state                                         *)
(***************************************************************************)
\* a text other than 'password123' with the same SHA-256 digest: there are such
\* texts, since the digests are fewer than the texts, though none is known
Collision == "another text with the digest of password123"

\* hashlib.sha256(text.encode()).hexdigest(): the digest of a text
Sha256(text) == [sha256 |-> IF text = Collision THEN "password123" ELSE text]

DOCTORS ==
  [admin    |-> [password |-> Sha256("password123"), name |-> "Dr. Admin",
                 department |-> "System Administration"],
   johndoe  |-> [password |-> Sha256("doctor456"), name |-> "Dr. John Doe",
                 department |-> "Emergency Medicine"],
   janesmit |-> [password |-> Sha256("nurse789"), name |-> "Dr. Jane Smith",
                 department |-> "Intensive Care"]]

AuthenticateAnyPassword(username, password) ==
  IF username \in DOMAIN DOCTORS THEN DOCTORS[username] ELSE None

\* authenticate(username, password)
Authenticate(username, password) ==
  IF username \in DOMAIN DOCTORS /\ DOCTORS[username].password = Sha256(password)
  THEN DOCTORS[username]
  ELSE None

\* what is typed into the login form
Usernames == {"admin", "johndoe", "mallory"}

Passwords == {"password123", "doctor456", "guess", Collision}

\* the rows generate_patient_data makes: 20 in the source
MaxPatients == 2

\* f'P{i+1:03d}'
PatientID(i) ==
  LET n == i + 1
  IN  Str(<<"P", (n \div 100) % 10, (n \div 10) % 10, n % 10>>)

\* generate_patient_data(): the IDs of its rows; the other columns are random
\* and only displayed
GeneratePatientData ==
  [kind |-> "DataFrame", ids |-> [i \in 1..MaxPatients |-> PatientID(i - 1)]]

\* if 'logged_in' not in st.session_state or not st.session_state.logged_in
LoggedIn(s) == s.logged_in = Bool(TRUE)

\* if st.session_state.selected_patient_id
Selected(s) == s.selected_patient_id \notin {None, Absent}

\* the IDs of the rows of the session's patient_data
PatientIDs(s) ==
  IF s.patient_data = Absent THEN {}
  ELSE {s.patient_data.ids[i] : i \in 1..Len(s.patient_data.ids)}

\* main() up to the patient section: the keys patient_data and
\* selected_patient_id are set if the session does not hold them
Prepared(s) ==
  [s EXCEPT !.patient_data = IF @ = Absent THEN GeneratePatientData ELSE @,
            !.selected_patient_id = IF @ = Absent THEN None ELSE @]

\* one run of main() in which nothing is clicked; csv tells whether
\* pd.read_csv('sensor_data.csv') finds a file with the three columns.  The run
\* shows the login page, the patient overview, or the details of the selected
\* patient, and is left by an exception when the selected ID has no row or the
\* CSV cannot be read.
Main(s, csv) ==
  IF ~LoggedIn(s)
  THEN [session |-> s, view |-> "login", patient |-> None, raised |-> FALSE]
  ELSE LET t == Prepared(s)
       IN  IF Selected(t)
           THEN [session |-> t, view |-> "detail",
                 patient |-> IF t.selected_patient_id \in PatientIDs(t)
                             THEN t.selected_patient_id ELSE None,
                 raised  |-> t.selected_patient_id \notin PatientIDs(t) \/ ~csv]
           ELSE [session |-> t, view |-> "overview", patient |-> None, raised |-> FALSE]

\* the page a run leaves: what it shows, and that it is neither the first
\* after a login nor one that called set_color
Rendered(run, old) ==
  [old EXCEPT !.view = run.view, !.patient = run.patient, !.raised = run.raised,
              !.set_color = FALSE, !.after_login = FALSE]

\* the dashboard is opened in a browser tab: a new session, and the first run
\* of main()
OpenDashboard ==
  /\ session_state' = NoSession
  /\ page' = Rendered(Main(NoSession, TRUE), NoPage)
  /\ UNCHANGED <<reader, led>>

\* login_page: "Login" is clicked with the two texts typed in; a successful
\* login ends in st.rerun(), and main() runs again
LoginClick ==
  /\ page.view = "login"
  /\ \E username \in Usernames, password \in Passwords, csv \in BOOLEAN :
       LET user  == Authenticate(username, password)
           typed == [username |-> username, password |-> password]
       IN  IF user # None
           THEN LET run == Main([session_state EXCEPT !.logged_in = Bool(TRUE),
                                                      !.username = Str(username),
                                                      !.user_info = user], csv)
                IN  /\ session_state' = run.session
                    /\ page' = [Rendered(run, page) EXCEPT !.after_login = TRUE,
                                                           !.attempt = typed]
           ELSE /\ session_state' = session_state
                /\ page' = [page EXCEPT !.attempt = typed]
  /\ UNCHANGED <<reader, led>>

LoggedOutForgetsPatient(s) ==
  [s EXCEPT !.logged_in = Bool(FALSE), !.username = None, !.user_info = None,
            !.selected_patient_id = None]

\* logout(): the three assignments
LoggedOut(s) ==
  [s EXCEPT !.logged_in = Bool(FALSE), !.username = None, !.user_info = None]

\* main: "Logout" in the sidebar is clicked; logout() ends in st.rerun(), and
\* main() runs again.  The sidebar is drawn before anything below it can fail.
LogoutClick ==
  /\ page.view \in {"overview", "detail"}
  /\ LET run == Main(LoggedOut(session_state), TRUE)
     IN  /\ session_state' = run.session
         /\ page' = [Rendered(run, page) EXCEPT
                       !.at_logout = session_state.selected_patient_id]
  /\ UNCHANGED <<reader, led>>

\* main, patient overview: "Select" on the card of one row of patient_data is
\* clicked; st.rerun() follows, and main() runs again
SelectClick ==
  /\ page.view = "overview"
  /\ \E id \in PatientIDs(session_state), csv \in BOOLEAN :
       LET run == Main([session_state EXCEPT !.selected_patient_id = id], csv)
       IN  /\ session_state' = run.session
           /\ page' = [Rendered(run, page) EXCEPT
                         !.selected_by = session_state.username]
  /\ UNCHANGED <<reader, led>>

\* main, patient details: "Set Color" is clicked with a colour of the selectbox;
\* set_color is called, and selected_color is stored and the rest of the page
\* drawn unless the call raised
SetColorClick ==
  /\ page.view = "detail"
  /\ page.patient # None
  /\ \E color \in ColorOptions, outcome \in SendOutcomes, csv \in BOOLEAN :
       LET sent == SetColorResult(color, outcome)
           run  == Main([session_state EXCEPT !.selected_color = Str(color)], csv)
       IN  /\ led' = sent
           /\ IF sent.raised
              THEN /\ session_state' = session_state
                   /\ page' = [page EXCEPT !.set_color = TRUE, !.raised = TRUE,
                                           !.after_login = FALSE]
              ELSE /\ session_state' = run.session
                   /\ page' = [Rendered(run, page) EXCEPT !.set_color = TRUE]
  /\ UNCHANGED reader

\* main, patient details: "Back to Patient Overview" is clicked; the run handles
\* the click at the end of the page, after the CSV was read, and st.rerun()
\* follows
BackClick ==
  /\ page.view = "detail"
  /\ ~page.raised
  /\ \E csv \in BOOLEAN :
       LET run == Main(IF csv THEN [session_state EXCEPT !.selected_patient_id = None]
                       ELSE session_state, TRUE)
       IN  /\ session_state' = run.session
           /\ page' = IF csv THEN Rendered(run, page)
                      ELSE [Rendered(run, page) EXCEPT !.raised = TRUE]
  /\ UNCHANGED <<reader, led>>

\* main, its last two lines: time.sleep(2), st.rerun(), and main() runs again
Refresh ==
  /\ page.view \in {"overview", "detail"}
  /\ ~page.raised
  /\ \E csv \in BOOLEAN :
       /\ session_state' = Main(session_state, csv).session
       /\ page' = Rendered(Main(session_state, csv), page)
  /\ UNCHANGED <<reader, led>>

\* the dashboard next to a reader that is never connected
InitApp ==
  /\ Init
  /\ variant = "sensor"
  /\ buffer_size = 1

NextApp ==
  \/ OpenDashboard
  \/ LoginClick
  \/ LogoutClick
  \/ SelectClick
  \/ SetColorClick
  \/ BackClick
  \/ Refresh
  \/ SetColor

SpecApp == InitApp /\ [][NextApp]_vars

(***************************************************************************)
(* Properties of the estimator, checked under SpecEstimator                *)
(***************************************************************************)
EstimatorRan == op \in {"analyze_heart_rate", "calculate_hrv"}

\* the timestamps of the first and of the last peak of the peak set
FirstPeakTime == time_buffer[CHOOSE p \in peaks : \A q \in peaks : p <= q]

LastPeakTime == time_buffer[CHOOSE p \in peaks : \A q \in peaks : q <= p]

C2_BpmIsSixtyOverMeanInterval ==
  (op = "analyze_heart_rate" /\ result # None) =>
     /\ result.kind = "bpm"
     /\ result.den > 0
     /\ result.num * (LastPeakTime - FirstPeakTime)
          = 60 * (Cardinality(peaks) - 1) * result.den
     /\ Cardinality(peaks) = 2 =>
          result.num * (LastPeakTime - FirstPeakTime) = 60 * result.den

\* C2 happens: a BPM from exactly two peaks, the second one after the device's stall
C2_Witness ==
  /\ op = "analyze_heart_rate"
  /\ result # None
  /\ Cardinality(peaks) = 2
  /\ signal.dt = 2
  /\ LastPeakTime - FirstPeakTime > MinPeakDistance * signal.dt

\* the accepted peaks form a perfectly regular train: all inter-beat intervals equal
RegularTrain ==
  LET t == PeakTimes(time_buffer, peaks)
  IN  \A i, j \in 1..(Len(t) - 1) : t[i + 1] - t[i] = t[j + 1] - t[j]

\* C3 as claimed: whenever calculate_hrv returns a result for a perfectly regular
\* train of any number (>= 2) of accepted peaks, SDNN and RMSSD are both 0.
C3_RegularTrainZero ==
  (op = "calculate_hrv" /\ result # None /\ RegularTrain) =>
     IsZero(result.SDNN) /\ IsZero(result.RMSSD)

\* what holds of the code: SDNN is 0 for every regular train, RMSSD is 0 for a
\* regular train of 3 or more peaks and nan for a train of 2 peaks
C3_RegularTrainCode ==
  (op = "calculate_hrv" /\ result # None /\ RegularTrain) =>
     /\ IsZero(result.SDNN)
     /\ IF Cardinality(peaks) >= 3 THEN IsZero(result.RMSSD) ELSE IsNaN(result.RMSSD)

\* C4: the peak set holds only local maxima of the PPG buffer that are at least
\* the mean of the buffer, and any two of its indices are at least 20 apart.
C4_PeakSet ==
  EstimatorRan =>
    \A p \in peaks :
      /\ p \in 2..(Len(ppg_buffer) - 1)
      /\ ppg_buffer[p - 1] <= ppg_buffer[p]
      /\ ppg_buffer[p + 1] <= ppg_buffer[p]
      /\ ppg_buffer[p] * Len(ppg_buffer) >= SeqSum(ppg_buffer)
      /\ \A q \in peaks \ {p} : p - q >= 20 \/ q - p >= 20

\* C4 happens: two peaks were accepted while a third local maximum was rejected
C4_Witness ==
  /\ EstimatorRan
  /\ Cardinality(peaks) = 2
  /\ \E i \in 2..(Len(ppg_buffer) - 1) :
       /\ i \notin peaks
       /\ ppg_buffer[i - 1] < ppg_buffer[i]
       /\ ppg_buffer[i + 1] < ppg_buffer[i]

\* an evenly sampled sine was analysed
SineAnalysed == op = "analyze_heart_rate" /\ signal.shape = "sine"

\* the BPM returned is 60 / period_seconds: the period is SineSteps/rate samples
\* of dt seconds each
BpmOfSine ==
  /\ result.kind = "bpm"
  /\ result.num * SineSteps * signal.dt = 60 * signal.rate * result.den

\* the samples strictly above both neighbours
StrictCrests ==
  { i \in 2..(Len(ppg_buffer) - 1) :
      ppg_buffer[i - 1] < ppg_buffer[i] /\ ppg_buffer[i + 1] < ppg_buffer[i] }

\* C5 as claimed: for an evenly sampled sine of any period of more than 2
\* samples, analyze_heart_rate returns 60 / period_seconds (the buffer showing
\* at least two crests of the wave, without which there is no interval at all).
C5_SineAnyPeriod ==
  (SineAnalysed /\ Cardinality(StrictCrests) >= 2) => BpmOfSine

\* C5 amended: for an evenly sampled sine whose period is a whole number of
\* samples and at least 20 samples (the minimum peak distance),
\* analyze_heart_rate returns 60 / period_seconds when the buffer shows at least
\* two crests of the wave, and never another BPM.
C5_SineLongPeriod ==
  (SineAnalysed /\ SineSteps >= MinPeakDistance * signal.rate) =>
     /\ result = None \/ BpmOfSine
     /\ Cardinality(StrictCrests) >= 2 => BpmOfSine

\* C5 amended happens: a sine of period exactly 20 samples gave a BPM
C5_Witness ==
  /\ SineAnalysed
  /\ SineSteps = MinPeakDistance * signal.rate
  /\ Cardinality(StrictCrests) >= 2
  /\ BpmOfSine

(***************************************************************************)
(* Properties of the readers, checked under Spec                           *)
(***************************************************************************)
\* C6: the length of each of the time, PPG and temperature buffers is at most
\* the buffer_size given at construction, whatever calls were made.
C6_BufferWithinCapacity ==
  /\ Len(ppg_buffer) <= buffer_size
  /\ Len(time_buffer) <= buffer_size
  /\ Len(temp_buffer) <= buffer_size

\* C6 happens: the PPG reader took more samples than its buffers hold
C6_Witness ==
  /\ variant = "ppg"
  /\ Len(accepted) > buffer_size
  /\ Len(ppg_buffer) = buffer_size
  /\ Len(time_buffer) = buffer_size

\* C7 as claimed: time_buffer is non-decreasing from oldest to newest after any
\* sequence of operations, a disconnect followed by a new connect included (the
\* clock of the model never runs backwards).
C7_TimeNonDecreasing ==
  \A i \in 1..(Len(time_buffer) - 1) : time_buffer[i] <= time_buffer[i + 1]

\* the k-th sample since the last clear_buffers call, as the buffers hold it
PPGOfSample(k) == k

TempOfSample(k) == TempBase + k

\* the buffers hold exactly the last m of the n samples appended, in arrival order
HoldsLast(m) ==
  LET n == Len(accepted)
  IN  /\ ppg_buffer = [i \in 1..m |-> PPGOfSample(n - m + i)]
      /\ time_buffer = [i \in 1..m |-> accepted[n - m + i]]
      /\ temp_buffer = IF variant = "ppg" THEN <<>>
                       ELSE [i \in 1..m |-> TempOfSample(n - m + i)]

Min(a, b) == IF a < b THEN a ELSE b

WellFormed(v, line) ==
  /\ line.decodable
  /\ Len(line.fields) = (IF v = "ppg" THEN 1 ELSE 2)
  /\ \A i \in 1..Len(line.fields) : line.fields[i].num

\* C9 as claimed: a malformed line leaves all buffers unchanged and does not end
\* the read loop, which goes on to the lines after it.
C9_MalformedLineSkipped ==
  [][\A line \in Lines :
       (~WellFormed(variant, line) /\ ReadLoopTakes(line)) =>
          (UNCHANGED buffers /\ pc' = "reading")]_vars

\* what holds of the code: a malformed line that is text (a non-numeric field,
\* the wrong number of fields) is skipped and the loop goes on
C9_MalformedTextSkipped ==
  [][\A line \in Lines :
       (line.decodable /\ ~WellFormed(variant, line) /\ ReadLoopTakes(line)) =>
          (UNCHANGED buffers /\ pc' = "reading")]_vars

\* C10: a failing connect returns False without raising and starts nothing; a
\* read_data call with no open connection (never connected, connect failed, or
\* after disconnect) returns at once, reads nothing and leaves the buffers as
\* they are; the read loop runs only on an open connection.
C10_NoLoopWithoutConnection ==
  /\ [][ConnectFails =>
          /\ result' = Bool(FALSE)
          /\ ~raised'
          /\ pc' = "idle"
          /\ UNCHANGED <<buffers, serial_connection, start_time>>]_vars
  /\ [][(ReadData /\ serial_connection # "open") =>
          /\ pc' = "idle"
          /\ ~raised'
          /\ UNCHANGED <<buffers, accepted, file, clock>>]_vars
  /\ [](pc = "reading" => serial_connection = "open")

\* C10 happens: read_data was refused after a disconnect, with samples in the buffers
C10_Witness ==
  /\ op = "read_data_refused"
  /\ serial_connection = "closed"
  /\ ppg_buffer # <<>>

(***************************************************************************)
(* save_data on buffers left by a session, checked under SpecSave          *)
(***************************************************************************)
\* the most samples in the buffers save_data is applied to
MaxSaveLen == 7

\* the buffers of SpecSave count ten-thousandths: of a second, of a degree, of
\* a PPG reading
FineUnit == 10000

\* how far, in counts, the first sample lies off a whole second
SaveOffsets == {0, 4, 5, 6}

\* n samples about a second apart that drift off the whole seconds, with
\* temperatures near 37 degrees that drift ten times as fast
SaveInputs ==
  { [ppg    |-> [i \in 1..n |-> i * FineUnit + off],
     temp   |-> [i \in 1..n |-> 37 * FineUnit + 10 * off * i],
     time   |-> [i \in 1..n |-> (i - 1) * FineUnit + off * i],
     signal |-> [shape |-> "saved", rate |-> 0, dt |-> 1, late |-> 0, unit |-> FineUnit]] :
       n \in 0..MaxSaveLen, off \in SaveOffsets }

\* a reader of either class after a session that left one of SaveInputs in its
\* buffers
InitSave ==
  /\ variant \in {"ppg", "sensor"}
  /\ buffer_size = MaxSaveLen + 1
  /\ serial_connection = "closed"
  /\ start_time = 0
  /\ \E in \in SaveInputs :
       /\ ppg_buffer = in.ppg
       /\ time_buffer = in.time
       /\ temp_buffer = IF variant = "sensor" THEN in.temp ELSE <<>>
       /\ signal = in.signal
  /\ clock = MaxSaveLen
  /\ pc = "idle"
  /\ end_time = NoTime
  /\ file = NoFile
  /\ result = None
  /\ raised = FALSE
  /\ peaks = {}
  /\ accepted = <<>>
  /\ op = "other"
  /\ InitDashboard

NextSave == SaveData \/ ClearBuffers

SpecSave == InitSave /\ [][NextSave]_vars

\* re-reading the decimal text gives the value x / unit to the text's precision:
\* they differ by at most half of 10^-digits
ReadsBack(text, x, unit) ==
  2 * Abs(text.count * unit - x * 10^text.digits) <= unit

\* row i of the file f holds sample k of the buffers as they are before the
\* call: time to 3 decimal places, the PPG reading itself, and in the
\* PPG+temperature reader the temperature to 2 decimal places
RowHoldsSample(f, i, k) ==
  /\ Len(f.rows[i]) = (IF variant = "ppg" THEN 2 ELSE 3)
  /\ f.rows[i][1].digits = 3
  /\ ReadsBack(f.rows[i][1], time_buffer[k], signal.unit)
  /\ f.rows[i][2].exact = ppg_buffer[k]
  /\ variant = "sensor" =>
       /\ f.rows[i][3].digits = 2
       /\ ReadsBack(f.rows[i][3], temp_buffer[k], signal.unit)

\* the file f holds the header and the samples from skip + 1 on, one row each
FileHoldsFrom(f, skip) ==
  /\ f.written
  /\ f.header = (IF variant = "ppg" THEN <<"Time", "PPG">>
                 ELSE <<"Time", "PPG", "Temperature">>)
  /\ Len(f.rows) = Len(ppg_buffer) - skip
  /\ \A i \in 1..Len(f.rows) : RowHoldsSample(f, i, skip + i)

C12_NumericDurationReturns ==
  (op = "read_data_numeric") ~> (pc = "idle")

\* what holds of the code: with a duration other than 0, read_data returns in
\* the end or is waiting inside readline() for the newline of a line
C12_PositiveDurationReturnsOrWaits ==
  (op = "read_data_numeric" /\ end_time # NoTime) ~> (pc = "idle" \/ pc = "readline")

(***************************************************************************)
(* The flush and the alignment of the buffers, checked under SpecInterrupt *)
(***************************************************************************)
\* C14 as claimed: in the PPG+temperature reader each buffer holds fewer than
\* buffer_size samples after every completed pass of the read loop.
C14_BelowCapacityAfterEachPass ==
  [][(variant = "sensor" /\ pc # "idle" /\ pc' = "reading") =>
       /\ Len(ppg_buffer') < buffer_size
       /\ Len(temp_buffer') < buffer_size
       /\ Len(time_buffer') < buffer_size]_vars

\* what holds of the code: the sample that fills the PPG buffer is followed by
\* the save of the buffers as they stand and then by the clearing of all three,
\* and a pass that took a sample leaves fewer than buffer_size PPG readings
C14_FlushSavesThenClears ==
  /\ [][(variant = "sensor" /\ AppendTime /\ Len(ppg_buffer) = buffer_size) =>
          pc' = "flush"]_vars
  /\ [][FlushSave =>
          /\ file' \in Saved(variant, ppg_buffer, temp_buffer, time_buffer, file, signal.unit)
          /\ UNCHANGED buffers]_vars
  /\ [][(variant = "sensor" /\ pc \in {"append_time", "clear_time"} /\ pc' = "reading") =>
          Len(ppg_buffer') < buffer_size]_vars

\* the buffers have one length, and entry i of each comes from the same line:
\* the line whose PPG reading is k is the k-th sample, taken at accepted[k] with
\* the temperature reading TempBase + k
Aligned ==
  /\ Len(time_buffer) = Len(ppg_buffer)
  /\ variant = "sensor" => Len(temp_buffer) = Len(ppg_buffer)
  /\ \A i \in 1..Len(ppg_buffer) :
       /\ i <= Len(time_buffer) => time_buffer[i] = accepted[ppg_buffer[i]]
       /\ (variant = "sensor" /\ i <= Len(temp_buffer)) =>
            temp_buffer[i] = TempBase + ppg_buffer[i]

\* C16 as claimed: between calls and between passes of the read loop the
\* buffers are aligned, an interrupted read loop included.
C16_BuffersAligned == pc \in {"idle", "reading"} => Aligned

\* what holds of the code: the buffers are aligned as long as Ctrl+C falls
\* between passes (under Spec, whose passes are single steps)
C16_AlignedBetweenWholePasses == Aligned

(***************************************************************************)
(* Properties of the dashboard, checked under SpecApp                      *)
(***************************************************************************)
\* the ASCII codes of '0', '1' and '2'
AsciiOf(color) ==
  IF color = "yellow" THEN <<48>>
  ELSE IF color = "green" THEN <<49>>
  ELSE IF color = "orange" THEN <<50>>
  ELSE <<>>

\* C13: a call of set_color writes at most one byte to the device: the ASCII
\* character '0' for 'yellow', '1' for 'green', '2' for 'orange', and nothing
\* for any other colour; when it wrote nothing for one of the three colours the
\* port failed; and a SerialException raised inside send_command is caught
\* there and does not leave set_color.
C13_SetColorSendsOneCharacter ==
  led.called =>
    /\ Len(led.written) <= 1
    /\ led.written \in {<<>>, AsciiOf(led.color)}
    /\ led.color \notin ColorOptions => led.written = <<>> /\ led.exception = "none"
    /\ (led.color \in ColorOptions /\ led.written = <<>>) => led.exception = "SerialException"
    /\ led.exception = "SerialException" => led.caught /\ ~led.raised

\* set_color('orange') wrote '2', reading the response failed, and the call
\* returned
C13_Witness ==
  /\ led.called
  /\ led.color = "orange"
  /\ led.written = <<50>>
  /\ led.exception = "SerialException"
  /\ ~led.raised

\* C17: whenever the session is logged in, the last login attempt gave a
\* username of DOCTORS and a password whose SHA-256 digest is the stored one,
\* and username and user_info are that doctor's; the patient overview and the patient
\* details are shown, and set_color is called from the page, only by a run of
\* main() in which the session is logged in.
C17_DashboardBehindLogin ==
  /\ LoggedIn(session_state) =>
       /\ page.attempt # None
       /\ page.attempt.username \in DOMAIN DOCTORS
       /\ DOCTORS[page.attempt.username].password = Sha256(page.attempt.password)
       /\ session_state.user_info = DOCTORS[page.attempt.username]
       /\ session_state.username = Str(page.attempt.username)
  /\ page.view \in {"overview", "detail"} => LoggedIn(session_state)
  /\ page.set_color => LoggedIn(session_state)

\* johndoe is logged in, and the run that drew the page called set_color
C17_Witness ==
  /\ LoggedIn(session_state)
  /\ page.attempt # None
  /\ page.attempt.username = "johndoe"
  /\ page.view = "detail"
  /\ page.set_color

====
